---- MODULE Spec2Model ----
(***************************************************************************)
(* Extraction and normalization pipeline of the ai-culture dataset         *)
(* creators (CSV, JSON and Dolma): compact_html, extract_content's         *)
(* post-processing, clean_control_chars and the per-document driver.       *)
(* A text is a sequence of Unicode codepoints (naturals).                  *)
(***************************************************************************)
EXTENDS Integers, Sequences, FiniteSets, TLC

VARIABLES
    creator,        \* which of the three scripts runs
    debug,          \* self.debug (Dolma: --debug)
    doc,            \* number of the document being processed, in glob order
    lang,           \* lang of the directory the document is in
    source_format,  \* source_format: "html", or "pdf" for a .txt of the pdf directory
    partial,        \* '.partial.html' in str(file_path)
    raw,            \* f.read() of the document
    pc,             \* position in the per-document code
    html,           \* content / html_raw / translated_html
    soup_title,     \* soup.title.get_text(strip=True)
    raw_text,       \* raw_text = h2t.handle(html_content)
    title,          \* title
    text,           \* text, then extracted_content / translated_text
    src_raw,        \* f.read() of the Hebrew counterpart (CSV)
    src_html,       \* source_html (CSV)
    src_raw_text,   \* raw_text of the Hebrew counterpart (CSV)
    src_text,       \* source_text (CSV)
    steps,          \* pipeline steps applied to the document, in order
    src_steps,      \* pipeline steps applied to the Hebrew counterpart (CSV)
    articles,       \* articles (JSON, Dolma) / rows written (CSV): document numbers
    debug_samples,  \* self.debug_samples (Dolma): document numbers per format
    scan,           \* compact_html's loop variables: i, in_tag, protect, out
    dataset,        \* main (Dolma): dataset = creator.create_dataset(...)
    jsonl           \* main (Dolma): the documents dumped to the output

\* what the processing of one document never assigns
file == <<creator, debug, doc, lang, source_format, partial, raw>>

\* what survives the processing of one document
kept == <<articles, debug_samples>>

\* what main has after create_dataset has returned
main == <<dataset, jsonl>>

vars == <<file, pc, html, soup_title, raw_text, title, text, src_raw, src_html,
          src_raw_text, src_text, steps, src_steps, kept, scan, main>>

Creators == {"csv", "json", "dolma"}

(***************************************************************************)
(* Codepoints                                                              *)
(***************************************************************************)
LT == 60
GT == 62
AMP == 38
HASH == 35
SEMI == 59
SP == 32
TAB == 9
LF == 10
CR == 13
BEL == 7
BOM == 65279
NBSP == 160
LatinA == 97
FullwidthA == 65345
Ni == 20320
Hao == 22909
CompatIdeograph == 63744
UnifiedOfCompat == 35912

\* Python's str.isspace / the regex class \s on str patterns
WhiteSpace ==
    {9, 10, 11, 12, 13, 28, 29, 30, 31, 32, 133, 160, 5760, 8232, 8233,
     8239, 8287, 12288} \cup (8192..8202)

\* str.lower on the ASCII letters (the only ones that can spell "script")
Lower(c) == IF c \in 65..90 THEN c + 32 ELSE c

\* "<script" and "</script"
ScriptOpen == <<60, 115, 99, 114, 105, 112, 116>>
ScriptClose == <<60, 47, 115, 99, 114, 105, 112, 116>>

\* raw[i:i+10].lower().startswith(p), i one-based
TagStartsWith(s, i, p) ==
    /\ Len(p) <= 10
    /\ i + Len(p) - 1 <= Len(s)
    /\ \A k \in 1..Len(p) : Lower(s[i + k - 1]) = p[k]

\* first index >= i whose character is not in S (Len(s)+1 when none)
RECURSIVE RunEnd(_, _, _)
RunEnd(s, i, S) ==
    IF i > Len(s) \/ s[i] \notin S THEN i ELSE RunEnd(s, i + 1, S)

\* first index >= i whose character is in S (Len(s)+1 when none)
RECURSIVE StopAt(_, _, _)
StopAt(s, i, S) ==
    IF i > Len(s) \/ s[i] \in S THEN i ELSE StopAt(s, i + 1, S)

\* str.strip(chars): drop leading and trailing characters of S
RECURSIVE LStrip(_, _)
LStrip(s, S) ==
    IF s # <<>> /\ s[1] \in S THEN LStrip(Tail(s), S) ELSE s

RECURSIVE RStrip(_, _)
RStrip(s, S) ==
    IF s # <<>> /\ s[Len(s)] \in S THEN RStrip(SubSeq(s, 1, Len(s) - 1), S) ELSE s

Strip(s, S) == RStrip(LStrip(s, S), S)

\* re.sub of a run of at least minLen characters of S by repl
RECURSIVE SubRuns(_, _, _, _, _, _)
SubRuns(s, i, S, minLen, repl, out) ==
    IF i > Len(s) THEN out
    ELSE LET j == RunEnd(s, i, S)
         IN IF j - i >= minLen
            THEN SubRuns(s, j, S, minLen, repl, out \o repl)
            ELSE IF j > i
                 THEN SubRuns(s, j, S, minLen, repl, out \o SubSeq(s, i, j - 1))
                 ELSE SubRuns(s, i + 1, S, minLen, repl, Append(out, s[i]))

\* the start of the leftmost occurrence of old in s at or after i, 0 when none
Find(s, i, old) ==
    LET M == {j \in i..(Len(s) - Len(old) + 1) : SubSeq(s, j, j + Len(old) - 1) = old}
    IN IF M = {} THEN 0 ELSE CHOOSE j \in M : \A k \in M : j <= k

\* str.replace(old, new) / re.sub of a literal: leftmost matches, no overlap
RECURSIVE Replace(_, _, _, _, _)
Replace(s, i, old, new, out) ==
    LET j == Find(s, i, old)
    IN IF j = 0 THEN out \o SubSeq(s, i, Len(s))
       ELSE Replace(s, j + Len(old), old, new, out \o SubSeq(s, i, j - 1) \o new)

(***************************************************************************)
(* compact_html                                                            *)
(***************************************************************************)
\* the while loop: one character per iteration, flags in_tag and protect
RECURSIVE Scan(_, _, _, _, _)
Scan(s, i, in_tag, protect, out) ==
    IF i > Len(s) THEN out
    ELSE LET ch == s[i]
         IN IF ch = LT
            THEN Scan(s, i + 1, TRUE,
                      IF TagStartsWith(s, i, ScriptOpen) THEN TRUE
                      ELSE IF TagStartsWith(s, i, ScriptClose) THEN FALSE
                      ELSE protect,
                      Append(out, ch))
            ELSE IF ch = GT
            THEN Scan(s, i + 1, FALSE, protect, Append(out, ch))
            ELSE Scan(s, i + 1, in_tag, protect,
                      Append(out, IF in_tag \/ protect THEN ch
                                  ELSE IF ch \in {LF, CR, TAB} THEN SP ELSE ch))

\* 1) re.sub(r">\s+<", "><", s)
RECURSIVE SubTagGap(_, _, _)
SubTagGap(s, i, out) ==
    IF i > Len(s) THEN out
    ELSE IF s[i] = GT
         THEN LET j == RunEnd(s, i + 1, WhiteSpace)
              IN IF j > i + 1 /\ j <= Len(s) /\ s[j] = LT
                 THEN SubTagGap(s, j + 1, out \o <<GT, LT>>)
                 ELSE SubTagGap(s, i + 1, Append(out, s[i]))
         ELSE SubTagGap(s, i + 1, Append(out, s[i]))

\* 2) re.sub(r"\s+<", "<", s)
RECURSIVE SubBeforeTag(_, _, _)
SubBeforeTag(s, i, out) ==
    IF i > Len(s) THEN out
    ELSE IF s[i] \in WhiteSpace
         THEN LET j == RunEnd(s, i, WhiteSpace)
              IN IF j <= Len(s) /\ s[j] = LT
                 THEN SubBeforeTag(s, j + 1, Append(out, LT))
                 ELSE SubBeforeTag(s, j, out \o SubSeq(s, i, j - 1))
         ELSE SubBeforeTag(s, i + 1, Append(out, s[i]))

\* 3) re.sub(r">\s+", ">", s)
RECURSIVE SubAfterTag(_, _, _)
SubAfterTag(s, i, out) ==
    IF i > Len(s) THEN out
    ELSE IF s[i] = GT
         THEN SubAfterTag(s, RunEnd(s, i + 1, WhiteSpace), Append(out, GT))
         ELSE SubAfterTag(s, i + 1, Append(out, s[i]))

\* pass 4 left out
CollapseSpacesDropped(s) == s

\* 4) re.sub(r" {2,}", " ", s)
CollapseSpaces(s) == SubRuns(s, 1, {SP}, 2, <<SP>>, <<>>)

\* the four cleanup passes and the final strip(), on the scan's output
Cleanup(s0) ==
    LET s1 == SubTagGap(s0, 1, <<>>)
        s2 == SubBeforeTag(s1, 1, <<>>)
        s3 == SubAfterTag(s2, 1, <<>>)
    IN Strip(CollapseSpaces(s3), WhiteSpace)

\* the runs of spaces collapsed in the text as read, before the scan has
\* turned newlines and tabs into spaces, and not after it
compact_html_collapse_first(s) ==
    LET s0 == Scan(CollapseSpaces(s), 1, FALSE, FALSE, <<>>)
        s1 == SubTagGap(s0, 1, <<>>)
        s2 == SubBeforeTag(s1, 1, <<>>)
    IN Strip(SubAfterTag(s2, 1, <<>>), WhiteSpace)

compact_html(s) == Cleanup(Scan(s, 1, FALSE, FALSE, <<>>))

(***************************************************************************)
(* extract_content, step 3: post-processing of the flattened text          *)
(***************************************************************************)
Digits == 48..57

\* characters that end the name of a named reference: [^\t\n\f <&#;]
NameStops == {TAB, LF, 12, SP, LT, AMP, HASH, SEMI}

\* the named references the sampled texts can spell: amp, lt, gt
\* (html.entities.html5 has each with and without the semicolon)
NamedRefs ==
    {<<<<97, 109, 112>>, AMP>>, <<<<108, 116>>, LT>>, <<<<103, 116>>, GT>>}

IsNamedRef(n) == \E e \in NamedRefs : e[1] = n

NamedRefValue(n) == (CHOOSE e \in NamedRefs : e[1] = n)[2]

\* html._invalid_charrefs for 0x80..0x9F (the windows-1252 readings)
Cp1252 ==
    <<8364, 129, 8218, 402, 8222, 8230, 8224, 8225, 710, 8240, 352, 8249,
     338, 141, 381, 143, 144, 8216, 8217, 8220, 8221, 8226, 8211, 8212,
     732, 8482, 353, 8250, 339, 157, 382, 376>>

\* html._invalid_codepoints below 0x10000 (0x80..0x9F are read through Cp1252)
InvalidCodepoints ==
    (1..8) \cup {11} \cup (14..31) \cup {127} \cup (64976..65007) \cup {65534, 65535}

\* value of the decimal digits s[i..j-1], saturating above 0x10FFFF
RECURSIVE DecValue(_, _, _, _)
DecValue(s, i, j, acc) ==
    IF i >= j THEN acc
    ELSE DecValue(s, i + 1, j,
                  IF acc * 10 + (s[i] - 48) > 1114111 THEN 1114112
                  ELSE acc * 10 + (s[i] - 48))

\* html._replace_charref on a numeric reference
NumericRefValue(num) ==
    IF num = 0 THEN <<65533>>
    ELSE IF num \in 128..159 THEN <<Cp1252[num - 127]>>
    ELSE IF num \in 55296..57343 \/ num > 1114111 THEN <<65533>>
    ELSE IF num \in InvalidCodepoints \/ (num % 65536) \in {65534, 65535} THEN <<>>
    ELSE <<num>>

\* longest proper prefix (length len down to 2) of name n that is a named
\* reference, 0 when none: the loop "for x in range(len(s)-1, 1, -1)"
RECURSIVE RefPrefix(_, _)
RefPrefix(n, len) ==
    IF len < 2 THEN 0
    ELSE IF IsNamedRef(SubSeq(n, 1, len)) THEN len
    ELSE RefPrefix(n, len - 1)

\* the smaller of two naturals
Min(a, b) == IF a < b THEN a ELSE b

\* html.unescape: decimal numeric references and the named references above
\* (the hexadecimal form &#x..; is outside the sampled alphabet)
RECURSIVE Unescape(_, _, _)
Unescape(s, i, out) ==
    IF i > Len(s) THEN out
    ELSE IF s[i] # AMP THEN Unescape(s, i + 1, Append(out, s[i]))
    ELSE IF i + 1 <= Len(s) /\ s[i + 1] = HASH
    THEN LET j == RunEnd(s, i + 2, Digits)
             k == IF j <= Len(s) /\ s[j] = SEMI THEN j + 1 ELSE j
         IN IF j > i + 2
            THEN Unescape(s, k, out \o NumericRefValue(DecValue(s, i + 2, j, 0)))
            ELSE Unescape(s, i + 1, Append(out, s[i]))
    ELSE LET e == StopAt(SubSeq(s, 1, Min(Len(s), i + 32)), i + 1, NameStops)
             name == SubSeq(s, i + 1, e - 1)
             semi == e <= Len(s) /\ s[e] = SEMI
             k == IF semi THEN e + 1 ELSE e
             full == IF semi THEN Len(name) + 1 ELSE Len(name)
             x == RefPrefix(name, Min(Len(name), full - 1))
         IN IF e = i + 1 THEN Unescape(s, i + 1, Append(out, s[i]))
            ELSE IF IsNamedRef(name)
            THEN Unescape(s, k, Append(out, NamedRefValue(name)))
            ELSE IF x > 0
            THEN Unescape(s, k,
                          Append(out, NamedRefValue(SubSeq(name, 1, x)))
                          \o SubSeq(s, i + 1 + x, k - 1))
            ELSE Unescape(s, k, out \o SubSeq(s, i, k - 1))

\* unicodedata.normalize('NFKC', .) on the sampled alphabet: NO-BREAK SPACE
\* and IDEOGRAPHIC SPACE become a space, FULLWIDTH LATIN SMALL LETTER A
\* becomes "a", CJK COMPATIBILITY IDEOGRAPH-F900 becomes U+8C48
NFKCChar(c) ==
    IF c = NBSP \/ c = 12288 THEN SP
    ELSE IF c = FullwidthA THEN LatinA
    ELSE IF c = CompatIdeograph THEN UnifiedOfCompat
    ELSE c

NFKC(s) == [i \in 1..Len(s) |-> NFKCChar(s[i])]

\* CJK_RANGE
IsCJK(c) ==
    \/ c \in 19968..40959
    \/ c \in 12352..12543
    \/ c \in 44032..55215
    \/ c \in 12544..12591
    \/ c \in 65280..65519

\* a. re.sub(r"[ \t]{2,}", " ", text)
CollapseBlanks(s) == SubRuns(s, 1, {SP, TAB}, 2, <<SP>>, <<>>)

\* b. re.sub(r" *\n *", "\n", text)
RECURSIVE TrimAroundNewlines(_, _, _)
TrimAroundNewlines(s, i, out) ==
    IF i > Len(s) THEN out
    ELSE LET j == RunEnd(s, i, {SP})
         IN IF j <= Len(s) /\ s[j] = LF
            THEN TrimAroundNewlines(s, RunEnd(s, j + 1, {SP}), Append(out, LF))
            ELSE IF j > i
                 THEN TrimAroundNewlines(s, j, out \o SubSeq(s, i, j - 1))
                 ELSE TrimAroundNewlines(s, i + 1, Append(out, s[i]))

\* c. re.sub(r"\n{3,}", "\n\n", text)
CollapseNewlines(s) == SubRuns(s, 1, {LF}, 3, <<LF, LF>>, <<>>)

\* step d with the second character class left open: ([CJK])\s+(.)
RECURSIVE DespaceAfterCJK(_, _, _)
DespaceAfterCJK(s, i, out) ==
    IF i > Len(s) THEN out
    ELSE IF IsCJK(s[i])
         THEN LET j == RunEnd(s, i + 1, WhiteSpace)
              IN IF j > i + 1 /\ j <= Len(s)
                 THEN DespaceAfterCJK(s, j + 1, out \o <<s[i], s[j]>>)
                 ELSE DespaceAfterCJK(s, i + 1, Append(out, s[i]))
         ELSE DespaceAfterCJK(s, i + 1, Append(out, s[i]))

\* d. re.sub(fr"([{CJK_RANGE}])\s+([{CJK_RANGE}])", r"\1\2", text):
\* a match consumes both ideographs, the scan resumes after the second
RECURSIVE DespaceCJK(_, _, _)
DespaceCJK(s, i, out) ==
    IF i > Len(s) THEN out
    ELSE IF IsCJK(s[i])
         THEN LET j == RunEnd(s, i + 1, WhiteSpace)
              IN IF j > i + 1 /\ j <= Len(s) /\ IsCJK(s[j])
                 THEN DespaceCJK(s, j + 1, out \o <<s[i], s[j]>>)
                 ELSE DespaceCJK(s, i + 1, Append(out, s[i]))
         ELSE DespaceCJK(s, i + 1, Append(out, s[i]))

\* steps 1-2 of the post-processing: entity decoding, then NFKC
Decode(s) == NFKC(Unescape(s, 1, <<>>))

\* steps a-d on decoded text
Respace(s) ==
    DespaceCJK(
        CollapseNewlines(TrimAroundNewlines(CollapseBlanks(s), 1, <<>>)),
        1, <<>>)

\* the whole post-processing; the Dolma copy ends with text.strip("\n ")
NormalizeText(c, s) ==
    IF c = "dolma" THEN Strip(Respace(Decode(s)), {LF, SP})
    ELSE Respace(Decode(s))

(***************************************************************************)
(* clean_control_chars                                                     *)
(***************************************************************************)
\* the translate table with the entry of the tab not taken out
ControlCharsWithTab == (0..31) \ {LF, CR}

\* the keys of control_chars: range(0x00, 0x20) without tab, LF and CR
ControlChars == (0..31) \ {TAB, LF, CR}

\* text.translate(control_chars)
DeleteControls(s) == SelectSeq(s, LAMBDA c : c \notin ControlChars)

\* the CSV and JSON copies end with .strip(); the Dolma copy does not
clean_control_chars(c, s) ==
    IF s = <<>> THEN s
    ELSE IF c = "dolma" THEN DeleteControls(LStrip(s, {BOM}))
    ELSE Strip(DeleteControls(LStrip(s, {BOM})), WhiteSpace)

(***************************************************************************)
(* Sampled inputs: texts spelled with at most k pieces of a set P          *)
(***************************************************************************)
RECURSIVE TextsOf(_, _)
TextsOf(P, k) ==
    IF k = 0 THEN {<<>>}
    ELSE LET prev == TextsOf(P, k - 1)
         IN prev \cup {t \o p : t \in prev, p \in P}

MaxCompactPieces == 4

\* "<script>", "</script>", "<", ">", " ", "\n", "a"
CompactPieces ==
    {ScriptOpen \o <<GT>>, ScriptClose \o <<GT>>, <<LT>>, <<GT>>, <<SP>>,
     <<LF>>, <<LatinA>>}

CompactInputs == TextsOf(CompactPieces, MaxCompactPieces)

MaxNormPieces == 4

\* " ", "\n", "\t", "a", U+4F60, " " U+597D, "&amp;", "lt;", "&#22909;"
NormPieces ==
    {<<SP>>, <<LF>>, <<TAB>>, <<LatinA>>, <<Ni>>, <<SP, Hao>>,
     <<AMP, 97, 109, 112, SEMI>>, <<108, 116, SEMI>>,
     <<AMP, HASH, 50, 50, 57, 48, 57, SEMI>>}

NormInputs == TextsOf(NormPieces, MaxNormPieces)

MaxCleanPieces == 4

\* BEL, tab, LF, CR, " ", "a", U+FEFF
CleanPieces == {<<BEL>>, <<TAB>>, <<LF>>, <<CR>>, <<SP>>, <<LatinA>>, <<BOM>>}

CleanInputs == TextsOf(CleanPieces, MaxCleanPieces)

(***************************************************************************)
(* The functions applied to sampled texts                                  *)
(***************************************************************************)
\* the Hebrew counterpart's variables (CSV)
src == <<src_raw, src_html, src_raw_text, src_text, src_steps>>

\* compact_html's loop variables before the loop: i = 0, n = len(raw),
\* out = [], in_tag = False, protect = False
ScanStart == [i |-> 0, in_tag |-> FALSE, protect |-> FALSE, out |-> <<>>]

\* with open(file_path) as f: ... = self.compact_html(f.read())
Compact ==
    /\ pc = "start"
    /\ html' = compact_html(raw)
    /\ steps' = Append(steps, "compact")
    /\ pc' = "compacted"
    /\ UNCHANGED <<file, soup_title, raw_text, title, text, src, kept, scan, main>>

\* the post-processing of extract_content applied to a text (kept in raw)
NormalizeCall ==
    /\ pc = "normalize_call"
    /\ text' = NormalizeText(creator, raw)
    /\ pc' = "normalize_ret"
    /\ UNCHANGED <<file, html, soup_title, raw_text, title, src, steps, kept, scan,
                   main>>

\* clean_control_chars applied to a text (kept in raw)
CleanCall ==
    /\ pc = "clean_call"
    /\ text' = clean_control_chars(creator, raw)
    /\ pc' = "clean_ret"
    /\ UNCHANGED <<file, html, soup_title, raw_text, title, src, steps, kept, scan,
                   main>>

\* the state before a call on the text x
CallInit(at, x) ==
    /\ creator \in Creators
    /\ debug = FALSE
    /\ doc = 1
    /\ lang = "en"
    /\ source_format = "html"
    /\ partial = FALSE
    /\ raw = x
    /\ pc = at
    /\ html = <<>>
    /\ soup_title = <<>>
    /\ raw_text = <<>>
    /\ title = <<>>
    /\ text = <<>>
    /\ src_raw = <<>>
    /\ src_html = <<>>
    /\ src_raw_text = <<>>
    /\ src_text = <<>>
    /\ steps = <<>>
    /\ src_steps = <<>>
    /\ articles = <<>>
    /\ debug_samples = [html |-> <<>>, pdf |-> <<>>]
    /\ scan = ScanStart
    /\ dataset = <<>>
    /\ jsonl = <<>>

InitNormalize == \E x \in NormInputs : CallInit("normalize_call", x)

SpecNormalize == InitNormalize /\ [][NormalizeCall]_vars

InitClean == \E x \in CleanInputs : CallInit("clean_call", x)

SpecClean == InitClean /\ [][CleanCall]_vars

\* compact_html applied to sampled raw texts
InitCompact == \E x \in CompactInputs : CallInit("start", x)

SpecCompact == InitCompact /\ [][Compact]_vars

(***************************************************************************)
(* compact_html, one turn of its while loop at a time                      *)
(***************************************************************************)
MaxScanPieces == 3

ScanInputs == TextsOf(CompactPieces, MaxScanPieces)

\* the character the loop is at: ch = raw[i] (i counts from 0)
Ch == raw[scan.i + 1]

\* a turn of the loop in which the '>' branch does not reach i += 1
ScanStepStuck ==
    /\ pc = "scan"
    /\ scan.i < Len(raw)
    /\ scan' =
          IF Ch = LT
          THEN [i |-> scan.i + 1,
                in_tag |-> TRUE,
                protect |-> IF TagStartsWith(raw, scan.i + 1, ScriptOpen) THEN TRUE
                            ELSE IF TagStartsWith(raw, scan.i + 1, ScriptClose)
                                 THEN FALSE
                                 ELSE scan.protect,
                out |-> Append(scan.out, Ch)]
          ELSE IF Ch = GT
          THEN [scan EXCEPT !.in_tag = FALSE]
          ELSE [scan EXCEPT
                   !.i = @ + 1,
                   !.out = Append(@, IF scan.in_tag \/ scan.protect THEN Ch
                                     ELSE IF Ch \in {LF, CR, TAB} THEN SP ELSE Ch)]
    /\ UNCHANGED <<file, pc, html, soup_title, raw_text, title, text, src,
                   steps, kept, main>>

\* one turn of "while i < n": the branch of ch, then i += 1
ScanStep ==
    /\ pc = "scan"
    /\ scan.i < Len(raw)
    /\ scan' =
          IF Ch = LT
          THEN [i |-> scan.i + 1,
                in_tag |-> TRUE,
                protect |-> IF TagStartsWith(raw, scan.i + 1, ScriptOpen) THEN TRUE
                            ELSE IF TagStartsWith(raw, scan.i + 1, ScriptClose)
                                 THEN FALSE
                                 ELSE scan.protect,
                out |-> Append(scan.out, Ch)]
          ELSE IF Ch = GT
          THEN [scan EXCEPT !.i = @ + 1, !.in_tag = FALSE, !.out = Append(@, Ch)]
          ELSE [scan EXCEPT
                   !.i = @ + 1,
                   !.out = Append(@, IF scan.in_tag \/ scan.protect THEN Ch
                                     ELSE IF Ch \in {LF, CR, TAB} THEN SP ELSE Ch)]
    /\ UNCHANGED <<file, pc, html, soup_title, raw_text, title, text, src,
                   steps, kept, main>>

\* the loop is left (i >= n): s = "".join(out), then s is assigned the
\* result of each cleanup pass in turn, and the last one is returned stripped
ScanReturn ==
    /\ pc = "scan"
    /\ scan.i >= Len(raw)
    /\ \E s1 \in {SubTagGap(scan.out, 1, <<>>)} :
       \E s2 \in {SubBeforeTag(s1, 1, <<>>)} :
       \E s3 \in {SubAfterTag(s2, 1, <<>>)} :
       \E s4 \in {CollapseSpaces(s3)} :
          html' = Strip(s4, WhiteSpace)
    /\ steps' = Append(steps, "compact")
    /\ pc' = "compacted"
    /\ UNCHANGED <<file, soup_title, raw_text, title, text, src, kept, scan, main>>

InitScan == \E x \in ScanInputs : CallInit("scan", x)

NextScan == ScanStep \/ ScanReturn

\* the interpreter runs the loop on: a turn that can be taken is taken
SpecScan == InitScan /\ [][NextScan]_vars /\ WF_vars(NextScan)

\* '</div>'
DivClose == <<60, 47, 100, 105, 118, 62>>

\* '<br>'
Br == <<60, 98, 114, 62>>

\* extract_content: html_content = re.sub(r'</div>', '</div><br>', html_content),
\* the markup handed to html2text; the Dolma copy has no such line
InsertBreaks(c, s) ==
    IF c = "dolma" THEN s
    ELSE Replace(s, 1, DivClose, DivClose \o Br, <<>>)

MaxBreakPieces == 3

\* "<div>", "</div>", "</DIV>", "<br>", "a"
BreakPieces ==
    {<<60, 100, 105, 118, 62>>, DivClose,
     <<60, 47, 68, 73, 86, 62>>, Br, <<LatinA>>}

BreakInputs == TextsOf(BreakPieces, MaxBreakPieces)

\* the markup extract_content hands to html2text, for a markup kept in raw
BreaksCall ==
    /\ pc = "breaks_call"
    /\ text' = InsertBreaks(creator, raw)
    /\ pc' = "breaks_ret"
    /\ UNCHANGED <<file, html, soup_title, raw_text, title, src, steps, kept, scan,
                   main>>

InitBreaks == \E x \in BreakInputs : CallInit("breaks_call", x)

SpecBreaks == InitBreaks /\ [][BreaksCall]_vars

(***************************************************************************)
(* The documents of a run, one after the other, through process_file       *)
(* (JSON, Dolma) or through one turn of the loop of create_csv_dataset     *)
(***************************************************************************)
\* 'Read complete version in English'
StubMarker ==
    <<82, 101, 97, 100, 32, 99, 111, 109, 112, 108, 101, 116, 101, 32,
    118, 101, 114, 115, 105, 111, 110, 32, 105, 110, 32, 69, 110, 103,
    108, 105, 115, 104>>

\* p in s
Contains(s, p) ==
    \E i \in 1..(Len(s) - Len(p) + 1) : SubSeq(s, i, i + Len(p) - 1) = p

\* '<html dir="ltr" lang="">'
HtmlLtr ==
    <<60, 104, 116, 109, 108, 32, 100, 105, 114, 61, 34, 108, 116, 114,
     34, 32, 108, 97, 110, 103, 61, 34, 34, 62>>

\* '<html dir="rtl" lang="he">'
HtmlRtl ==
    <<60, 104, 116, 109, 108, 32, 100, 105, 114, 61, 34, 114, 116, 108,
     34, 32, 108, 97, 110, 103, 61, 34, 104, 101, 34, 62>>

\* content.replace('<html dir="ltr" lang="">', '<html dir="rtl" lang="he">')
MarkHebrew(s) == Replace(s, 1, HtmlLtr, HtmlRtl, <<>>)

\* the marker with gap between its words in place of the single space
SpacedMarker(gap) == Replace(StubMarker, 1, <<SP>>, gap, <<>>)

\* sampled files: "", "<a> a\n</a>", "<script> a</script>a", BEL "a  a",
\* '<html dir="ltr" lang="">a', a stub page
\* "<a>Read complete version in English</a>", the stub page with a newline
\* between the words, the marker alone with "\t " between the words, and a
\* page with the words on separate lines inside a tag,
\* '<a Read\ncomplete\n...English>a'
DocSamples ==
    {<<>>,
     <<LT, LatinA, GT, SP, LatinA, LF, LT, 47, LatinA, GT>>,
     ScriptOpen \o <<GT, SP, LatinA>> \o ScriptClose \o <<GT, LatinA>>,
     <<BEL, LatinA, SP, SP, LatinA>>,
     HtmlLtr \o <<LatinA>>,
     <<LT, LatinA, GT>> \o StubMarker \o <<LT, 47, LatinA, GT>>,
     <<LT, LatinA, GT>> \o SpacedMarker(<<LF>>) \o <<LT, 47, LatinA, GT>>,
     SpacedMarker(<<TAB, SP>>),
     <<LT, LatinA, SP>> \o SpacedMarker(<<LF>>) \o <<GT, LatinA>>}

\* sampled results of html2text's handle(): "", "a\n\n", " a  a\n",
\* BEL " a", "<CJK> <CJK>\n\n", "\n\n", BEL
FlatSamples ==
    {<<>>, <<LatinA, LF, LF>>, <<SP, LatinA, SP, SP, LatinA, LF>>,
     <<BEL, SP, LatinA>>, <<Ni, SP, Hao, LF, LF>>, <<LF, LF>>, <<BEL>>}

\* sampled results of soup.title.get_text(strip=True): "", "a", BEL " a"
TitleSamples == {<<>>, <<LatinA>>, <<BEL, SP, LatinA>>}

\* a Hebrew token of two letters: ALEF BET
HebrewToken == <<1488, 1489>>

MaxTxtPieces == 4

\* pieces of the sampled .txt files: " ", "\n", "a", ALEF BET, BEL, U+FEFF
TxtPieces == {<<SP>>, <<LF>>, <<LatinA>>, HebrewToken, <<BEL>>, <<BOM>>}

TxtInputs == TextsOf(TxtPieces, MaxTxtPieces)

\* sampled results of Path(txt_path).stem: "a", ALEF BET
StemSamples == {<<LatinA>>, HebrewToken}

MaxDocs == 2

\* self.languages, sampled: the CSV creator has no "he"
Langs(c) == IF c = "csv" THEN {"en"} ELSE {"he", "en"}

\* .txt files are globbed in the pdf directory, for lang == "he", by the
\* Dolma creator only
Formats(c, l) == IF c = "dolma" /\ l = "he" THEN {"html", "pdf"} ELSE {"html"}

Partials(f) == IF f = "pdf" THEN {FALSE} ELSE BOOLEAN

Files(f) == IF f = "pdf" THEN TxtInputs ELSE DocSamples

Order == <<"compact", "flatten", "normalize", "sanitize">>

\* the open() or the read of the document raises (unreadable, not UTF-8):
\* CSV and Dolma catch it and go on to the next file, extract_txt_file
\* returns (None, None); the JSON creator's process_file has no try
ReadFails ==
    /\ pc = "start"
    /\ creator = "csv" => ~partial
    /\ pc' = IF creator = "json" THEN "aborted" ELSE "skipped"
    /\ UNCHANGED <<file, html, soup_title, raw_text, title, text, src, steps,
                   kept, scan, main>>

\* CSV: if '.partial.html' in str(file_path): continue (before the file is read)
SkipPartial ==
    /\ creator = "csv"
    /\ pc = "start"
    /\ partial
    /\ pc' = "skipped"
    /\ UNCHANGED <<file, html, soup_title, raw_text, title, text, src, steps,
                   kept, scan, main>>

\* translated_html / content / html_raw = self.compact_html(f.read());
\* JSON: if lang == "he": content = content.replace(...)
CompactDoc ==
    /\ pc = "start"
    /\ source_format = "html"
    /\ creator = "csv" => ~partial
    /\ html' = IF creator = "json" /\ lang = "he"
               THEN MarkHebrew(compact_html(raw)) ELSE compact_html(raw)
    /\ steps' = Append(steps, "compact")
    /\ pc' = "compacted"
    /\ UNCHANGED <<file, soup_title, raw_text, title, text, src, kept, scan, main>>

\* extract_txt_file with the whitespace cleaned by " ".join(text.split())
ExtractTxtJoined ==
    /\ pc = "start"
    /\ source_format = "pdf"
    /\ text' = Strip(SubRuns(raw, 1, WhiteSpace, 1, <<SP>>, <<>>), WhiteSpace)
    /\ title' \in StemSamples
    /\ steps' = Append(steps, "extract_txt")
    /\ pc' = "extracted"
    /\ UNCHANGED <<file, html, soup_title, raw_text, src, kept, scan, main>>

\* Dolma, extract_txt_file: text = f.read(); text = text.strip();
\* title = Path(txt_path).stem
ExtractTxt ==
    /\ pc = "start"
    /\ source_format = "pdf"
    /\ text' = Strip(raw, WhiteSpace)
    /\ title' \in StemSamples
    /\ steps' = Append(steps, "extract_txt")
    /\ pc' = "extracted"
    /\ UNCHANGED <<file, html, soup_title, raw_text, src, kept, scan, main>>

\* the document is a stub: the marker in the compacted markup, or (JSON,
\* Dolma) '.partial.html' in the path
SkipStub ==
    /\ pc = "compacted"
    /\ Contains(html, StubMarker) \/ partial
    /\ pc' = "skipped"
    /\ UNCHANGED <<file, html, soup_title, raw_text, title, text, src, steps,
                   kept, scan, main>>

\* CSV, get_hebrew_content: if not hebrew_path.exists(): return None, None,
\* None; the caller prints a warning and goes on to the next file
HebrewMissing ==
    /\ creator = "csv"
    /\ pc = "compacted"
    /\ ~Contains(html, StubMarker)
    /\ pc' = "skipped"
    /\ UNCHANGED <<file, html, soup_title, raw_text, title, text, src, steps,
                   kept, scan, main>>

\* CSV, get_hebrew_content: the read of the Hebrew file, or its
\* extract_content, raises; neither is inside a try
HebrewFails ==
    /\ creator = "csv"
    /\ \/ pc = "compacted" /\ ~Contains(html, StubMarker)
       \/ pc = "src_compacted"
    /\ pc' = "aborted"
    /\ UNCHANGED <<file, html, soup_title, raw_text, title, text, src, steps,
                   kept, scan, main>>

\* CSV, get_hebrew_content: content = f.read();
\* content = self.compact_html(content); content = content.replace(...)
HebrewCompact ==
    /\ creator = "csv"
    /\ pc = "compacted"
    /\ ~Contains(html, StubMarker)
    /\ src_raw' \in DocSamples
    /\ src_html' = MarkHebrew(compact_html(src_raw'))
    /\ src_steps' = Append(src_steps, "compact")
    /\ pc' = "src_compacted"
    /\ UNCHANGED <<file, html, soup_title, raw_text, title, text, src_raw_text,
                   src_text, steps, kept, scan, main>>

\* CSV, get_hebrew_content: extract_content(content) up to h2t.handle
HebrewFlatten ==
    /\ pc = "src_compacted"
    /\ src_raw_text' \in FlatSamples
    /\ src_steps' = Append(src_steps, "flatten")
    /\ pc' = "src_flattened"
    /\ UNCHANGED <<file, html, soup_title, raw_text, title, text, src_raw,
                   src_html, src_text, steps, kept, scan, main>>

\* CSV, get_hebrew_content: the post-processing of extract_content
HebrewNormalize ==
    /\ pc = "src_flattened"
    /\ src_text' = NormalizeText(creator, src_raw_text)
    /\ src_steps' = Append(src_steps, "normalize")
    /\ pc' = "src_normalized"
    /\ UNCHANGED <<file, html, soup_title, raw_text, title, text, src_raw,
                   src_html, src_raw_text, steps, kept, scan, main>>

\* CSV: if not source_html: continue
SkipNoSource ==
    /\ pc = "src_normalized"
    /\ src_html = <<>>
    /\ pc' = "skipped"
    /\ UNCHANGED <<file, html, soup_title, raw_text, title, text, src, steps,
                   kept, scan, main>>

\* the document is ready for extract_content, the marker looked for in the
\* text as read rather than in the compacted markup
ExtractableRawMarker ==
    \/ creator = "csv" /\ pc = "src_normalized" /\ src_html # <<>>
    \/ creator # "csv" /\ pc = "compacted"
          /\ ~(Contains(raw, StubMarker) \/ partial)

\* the document is ready for extract_content
Extractable ==
    \/ creator = "csv" /\ pc = "src_normalized" /\ src_html # <<>>
    \/ creator # "csv" /\ pc = "compacted"
          /\ ~(Contains(html, StubMarker) \/ partial)

\* extract_content up to raw_text = h2t.handle(html_content): the title by
\* BeautifulSoup, then html2text (both outside the repository: any sampled
\* result); the CSV caller drops the title
Flatten ==
    /\ Extractable
    /\ soup_title' \in TitleSamples
    /\ title' = IF creator = "csv" THEN <<>> ELSE Decode(soup_title')
    /\ raw_text' \in FlatSamples
    /\ steps' = Append(steps, "flatten")
    /\ pc' = "flattened"
    /\ UNCHANGED <<file, html, text, src, kept, scan, main>>

\* extract_content raises (BeautifulSoup or html2text on markup they cannot
\* take): the Dolma creator's try returns None, the other two have no try
FlattenFails ==
    /\ Extractable
    /\ pc' = IF creator = "dolma" THEN "skipped" ELSE "aborted"
    /\ UNCHANGED <<file, html, soup_title, raw_text, title, text, src, steps,
                   kept, scan, main>>

\* extract_content, step 3: the post-processing of raw_text
Normalize ==
    /\ pc = "flattened"
    /\ text' = NormalizeText(creator, raw_text)
    /\ steps' = Append(steps, "normalize")
    /\ pc' = "normalized"
    /\ UNCHANGED <<file, html, soup_title, raw_text, title, src, kept, scan, main>>

\* Dolma: if not extracted_content.strip(): return None
SkipEmpty ==
    /\ creator = "dolma"
    /\ pc \in {"normalized", "extracted"}
    /\ Strip(text, WhiteSpace) = <<>>
    /\ pc' = "skipped"
    /\ UNCHANGED <<file, html, soup_title, raw_text, title, text, src, steps,
                   kept, scan, main>>

\* clean_control_chars applied before extract_content's post-processing
SanitizeEarly ==
    /\ pc = "flattened"
    /\ text' = clean_control_chars(creator, raw_text)
    /\ steps' = Append(steps, "sanitize")
    /\ articles' = Append(articles, doc)
    /\ pc' = "done"
    /\ UNCHANGED <<file, html, soup_title, raw_text, title, src, debug_samples,
                   scan, main>>

\* clean_control_chars on the body only, the title and the markup as they are
SanitizeBodyOnly ==
    /\ pc \in {"normalized", "extracted"}
    /\ creator = "dolma" => Strip(text, WhiteSpace) # <<>>
    /\ text' = clean_control_chars(creator, text)
    /\ steps' = Append(steps, "sanitize")
    /\ src_steps' = IF creator = "csv" THEN Append(src_steps, "sanitize")
                    ELSE src_steps
    /\ articles' = Append(articles, doc)
    /\ pc' = "done"
    /\ UNCHANGED <<file, html, soup_title, raw_text, title, src_raw, src_html,
                   src_raw_text, src_text, debug_samples, scan, main>>

\* clean_control_chars on every text field of the record (Dolma: on html_raw
\* if it is not None or empty, which the function returns as it is); the
\* record is then built, kept in debug_samples (Dolma with --debug), returned
\* and appended to articles (JSON, Dolma) or written as a row (CSV)
Sanitize ==
    /\ pc \in {"normalized", "extracted"}
    /\ creator = "dolma" => Strip(text, WhiteSpace) # <<>>
    /\ title' = clean_control_chars(creator, title)
    /\ text' = clean_control_chars(creator, text)
    /\ html' = clean_control_chars(creator, html)
    /\ src_text' = IF creator = "csv" THEN clean_control_chars(creator, src_text)
                   ELSE src_text
    /\ src_html' = IF creator = "csv" THEN clean_control_chars(creator, src_html)
                   ELSE src_html
    /\ steps' = Append(steps, "sanitize")
    /\ src_steps' = IF creator = "csv" THEN Append(src_steps, "sanitize")
                    ELSE src_steps
    /\ articles' = Append(articles, doc)
    /\ debug_samples' =
          IF creator = "dolma" /\ debug
          THEN [debug_samples EXCEPT ![source_format] = Append(@, doc)]
          ELSE debug_samples
    /\ pc' = "done"
    /\ UNCHANGED <<file, soup_title, raw_text, src_raw, src_raw_text, scan, main>>

\* the end of a document with html_raw left as the document had it
EndDocStaleHtml ==
    /\ pc \in {"done", "skipped"}
    /\ pc' = "next"
    /\ lang' = "en"
    /\ source_format' = "html"
    /\ partial' = FALSE
    /\ raw' = <<>>
    /\ soup_title' = <<>>
    /\ raw_text' = <<>>
    /\ title' = <<>>
    /\ text' = <<>>
    /\ src_raw' = <<>>
    /\ src_html' = <<>>
    /\ src_raw_text' = <<>>
    /\ src_text' = <<>>
    /\ steps' = <<>>
    /\ src_steps' = <<>>
    /\ UNCHANGED <<creator, debug, doc, html, kept, scan, main>>

\* the end of a document: process_file has returned and its locals are gone
\* (the next call starts with html_raw = None); the CSV loop assigns each of
\* its variables in the next turn before it reads it
EndDoc ==
    /\ pc \in {"done", "skipped"}
    /\ pc' = "next"
    /\ lang' = "en"
    /\ source_format' = "html"
    /\ partial' = FALSE
    /\ raw' = <<>>
    /\ html' = <<>>
    /\ soup_title' = <<>>
    /\ raw_text' = <<>>
    /\ title' = <<>>
    /\ text' = <<>>
    /\ src_raw' = <<>>
    /\ src_html' = <<>>
    /\ src_raw_text' = <<>>
    /\ src_text' = <<>>
    /\ steps' = <<>>
    /\ src_steps' = <<>>
    /\ UNCHANGED <<creator, debug, doc, kept, scan, main>>

\* the next file of the glob
NextDoc ==
    /\ pc = "next"
    /\ doc < MaxDocs
    /\ doc' = doc + 1
    /\ lang' \in Langs(creator)
    /\ source_format' \in Formats(creator, lang')
    /\ partial' \in Partials(source_format')
    /\ raw' \in Files(source_format')
    /\ pc' = "start"
    /\ UNCHANGED <<creator, debug, html, soup_title, raw_text, title, text,
                   src, steps, kept, scan, main>>

\* the first file of a run
Init ==
    /\ creator \in Creators
    /\ debug \in (IF creator = "dolma" THEN BOOLEAN ELSE {FALSE})
    /\ doc = 1
    /\ lang \in Langs(creator)
    /\ source_format \in Formats(creator, lang)
    /\ partial \in Partials(source_format)
    /\ raw \in Files(source_format)
    /\ pc = "start"
    /\ html = <<>>
    /\ soup_title = <<>>
    /\ raw_text = <<>>
    /\ title = <<>>
    /\ text = <<>>
    /\ src_raw = <<>>
    /\ src_html = <<>>
    /\ src_raw_text = <<>>
    /\ src_text = <<>>
    /\ steps = <<>>
    /\ src_steps = <<>>
    /\ articles = <<>>
    /\ debug_samples = [html |-> <<>>, pdf |-> <<>>]
    /\ scan = ScanStart
    /\ dataset = <<>>
    /\ jsonl = <<>>

Next ==
    \/ ReadFails
    \/ SkipPartial
    \/ CompactDoc
    \/ ExtractTxt
    \/ SkipStub
    \/ HebrewMissing
    \/ HebrewFails
    \/ HebrewCompact
    \/ HebrewFlatten
    \/ HebrewNormalize
    \/ SkipNoSource
    \/ Flatten
    \/ FlattenFails
    \/ Normalize
    \/ SkipEmpty
    \/ Sanitize
    \/ EndDoc
    \/ NextDoc

Spec == Init /\ [][Next]_vars

(***************************************************************************)
(* Properties of compact_html                                              *)
(***************************************************************************)
\* the interiors of the closed <script ...> ... </script blocks of s, in order
\* (mode: "out" outside, "open" in the opening tag, "in" in the block)
RECURSIVE ScriptBlocks(_, _, _, _, _)
ScriptBlocks(s, i, mode, cur, acc) ==
    IF i > Len(s) THEN acc
    ELSE LET ch == s[i]
         IN IF mode = "out"
            THEN ScriptBlocks(s, i + 1,
                              IF ch = LT /\ TagStartsWith(s, i, ScriptOpen)
                              THEN "open" ELSE "out", <<>>, acc)
            ELSE IF mode = "open"
            THEN ScriptBlocks(s, i + 1,
                              IF ch = GT THEN "in"
                              ELSE IF ch = LT /\ TagStartsWith(s, i, ScriptClose)
                              THEN "out" ELSE "open", <<>>, acc)
            ELSE IF ch = LT /\ TagStartsWith(s, i, ScriptClose)
                 THEN ScriptBlocks(s, i + 1, "out", <<>>, Append(acc, cur))
                 ELSE ScriptBlocks(s, i + 1, "in", Append(cur, ch), acc)

ScriptInteriors(s) == ScriptBlocks(s, 1, "out", <<>>, <<>>)

\* the interiors of the tags of s ('<' up to the next '>'), in order
RECURSIVE TagBlocks(_, _, _, _, _)
TagBlocks(s, i, in_tag, cur, acc) ==
    IF i > Len(s) THEN acc
    ELSE LET ch == s[i]
         IN IF in_tag
            THEN IF ch = GT
                 THEN TagBlocks(s, i + 1, FALSE, <<>>, Append(acc, cur))
                 ELSE TagBlocks(s, i + 1, TRUE, Append(cur, ch), acc)
            ELSE TagBlocks(s, i + 1, ch = LT, <<>>, acc)

TagInteriors(s) == TagBlocks(s, 1, FALSE, <<>>, <<>>)

\* for each character of s: is it ordinary text, i.e. neither a tag
\* delimiter nor inside a tag or a protected block (the scan's own flags)
RECURSIVE OrdinaryFlags(_, _, _, _, _)
OrdinaryFlags(s, i, in_tag, protect, out) ==
    IF i > Len(s) THEN out
    ELSE LET ch == s[i]
         IN IF ch = LT
            THEN OrdinaryFlags(s, i + 1, TRUE,
                      IF TagStartsWith(s, i, ScriptOpen) THEN TRUE
                      ELSE IF TagStartsWith(s, i, ScriptClose) THEN FALSE
                      ELSE protect,
                      Append(out, FALSE))
            ELSE IF ch = GT
            THEN OrdinaryFlags(s, i + 1, FALSE, protect, Append(out, FALSE))
            ELSE OrdinaryFlags(s, i + 1, in_tag, protect,
                               Append(out, ~(in_tag \/ protect)))

Ordinary(s) == OrdinaryFlags(s, 1, FALSE, FALSE, <<>>)

\* s has two adjacent ordinary-text characters of S
HasOrdinaryPair(s, S) ==
    \E i \in 1..(Len(s) - 1) :
        /\ s[i] \in S /\ s[i + 1] \in S
        /\ Ordinary(s)[i] /\ Ordinary(s)[i + 1]

\* C2: the interior of every <script>...</script> block of the input is,
\* character for character, the interior of the same block of the output
C2_ScriptInteriorKept ==
    pc = "compacted" => ScriptInteriors(html) = ScriptInteriors(raw)

\* C3: the interior of every tag of the input is, character for character,
\* the interior of the same tag of the output
C3_TagInteriorKept ==
    pc = "compacted" => TagInteriors(html) = TagInteriors(raw)

\* C4: the output of compact_html has no two adjacent ordinary-text spaces
C4_NoDoubleOrdinarySpace ==
    pc = "compacted" => ~HasOrdinaryPair(html, {SP})

\* C4 witness: the input had a run of ordinary-text blanks between two
\* words and the output keeps exactly one space there
C4_Witness ==
    /\ pc = "compacted"
    /\ HasOrdinaryPair(raw, {SP, LF})
    /\ \E i \in 2..(Len(html) - 1) :
          html[i] = SP /\ Ordinary(html)[i]
          /\ html[i - 1] = LatinA /\ html[i + 1] = LatinA

(***************************************************************************)
(* Properties of the text normalizer                                       *)
(***************************************************************************)
\* s has whitespace, and nothing else, between two CJK-range characters
HasSpacedCJK(s) ==
    \E i \in 1..Len(s) : \E j \in (i + 2)..Len(s) :
        /\ IsCJK(s[i]) /\ IsCJK(s[j])
        /\ \A k \in (i + 1)..(j - 1) : s[k] \in WhiteSpace

\* a is CJK-range and b is neither CJK-range nor whitespace, or the reverse
Mixed(a, b) ==
    \/ IsCJK(a) /\ ~IsCJK(b) /\ b \notin WhiteSpace
    \/ IsCJK(b) /\ ~IsCJK(a) /\ a \notin WhiteSpace

\* s has a space directly between the characters a and b
HasSpaceBetween(s, a, b) ==
    \E j \in 2..(Len(s) - 1) : s[j] = SP /\ s[j - 1] = a /\ s[j + 1] = b

\* s has a space directly next to the CJK-range one of a (before) and b (after)
HasSpaceNextToCJK(s, a, b) ==
    \E j \in 1..Len(s) :
        /\ s[j] = SP
        /\ \/ IsCJK(a) /\ j > 1 /\ s[j - 1] = NFKCChar(a)
           \/ IsCJK(b) /\ j < Len(s) /\ s[j + 1] = NFKCChar(b)

\* C1: the normalizer is idempotent: normalizing its own output changes nothing
C1_NormalizeIdempotent ==
    pc = "normalize_ret" => NormalizeText(creator, text) = text

\* C8: after normalization no whitespace run sits directly between two
\* CJK-range characters (every such run is removed in a single application)
C8_NoSpaceBetweenCJK ==
    pc = "normalize_ret" => ~HasSpacedCJK(text)

\* C9 as stated: a single space of the input whose one neighbour is CJK-range
\* and whose other neighbour is neither CJK-range nor whitespace is still in
\* the output next to that CJK-range character
C9_MixedSpaceKept ==
    pc = "normalize_ret" =>
        \A i \in 2..(Len(raw) - 1) :
            (raw[i] = SP /\ Mixed(raw[i - 1], raw[i + 1]))
                => HasSpaceNextToCJK(text, raw[i - 1], raw[i + 1])

\* C9 amended: a single space whose neighbours after entity decoding and NFKC
\* are a CJK-range character and a character that is neither CJK-range nor
\* whitespace is still in the output, between the same two characters
C9_DecodedMixedSpaceKept ==
    pc = "normalize_ret" =>
        \A i \in 2..(Len(Decode(raw)) - 1) :
            (Decode(raw)[i] = SP /\ Mixed(Decode(raw)[i - 1], Decode(raw)[i + 1]))
                => HasSpaceBetween(text, Decode(raw)[i - 1], Decode(raw)[i + 1])

\* C9 witness: "<CJK> a" went through the normalizer and kept its space
C9_Witness ==
    /\ pc = "normalize_ret"
    /\ HasSpaceBetween(raw, Ni, LatinA)
    /\ HasSpaceBetween(text, Ni, LatinA)

(***************************************************************************)
(* Properties of clean_control_chars                                       *)
(***************************************************************************)
Kept3 == {TAB, LF, CR}

\* the tabs, LFs and CRs of s that lie between two positions of the set solid
RECURSIVE Interior3(_, _, _, _)
Interior3(s, solid, i, out) ==
    IF i > Len(s) THEN out
    ELSE Interior3(s, solid, i + 1,
                   IF /\ s[i] \in Kept3
                      /\ \E j \in solid : j < i
                      /\ \E k \in solid : k > i
                   THEN Append(out, s[i]) ELSE out)

\* positions of the input whose character survives and is no whitespace:
\* not a control character, not whitespace, not in the leading run of U+FEFF
InputSolid(s) ==
    {i \in 1..Len(s) :
        /\ s[i] \notin ControlChars
        /\ s[i] \notin WhiteSpace
        /\ \E m \in 1..i : s[m] # BOM}

\* positions of the output that hold no whitespace
OutputSolid(s) == {i \in 1..Len(s) : s[i] \notin WhiteSpace}

\* C5: the result has no codepoint of 0x00-0x1F but tab, LF and CR, and the
\* tabs, LFs and CRs in the interior of the text are all still there, in order
C5_NoControlChars ==
    pc = "clean_ret" =>
        /\ \A i \in 1..Len(text) : text[i] \in (0..31) => text[i] \in Kept3
        /\ Interior3(text, OutputSolid(text), 1, <<>>)
               = Interior3(raw, InputSolid(raw), 1, <<>>)

\* C5 witness: a text with a control character and a tab between two letters
\* was cleaned, and the tab is still between the letters
C5_Witness ==
    /\ pc = "clean_ret"
    /\ \E i \in 1..Len(raw) : raw[i] = BEL
    /\ \E i \in 2..(Len(raw) - 1) :
          raw[i] = TAB /\ raw[i - 1] = LatinA /\ raw[i + 1] = LatinA
    /\ \E i \in 2..(Len(text) - 1) :
          text[i] = TAB /\ text[i - 1] = LatinA /\ text[i + 1] = LatinA

\* C6: in every creator the result of a non-empty input has no leading and
\* no trailing whitespace character
C6_Trimmed ==
    (pc = "clean_ret" /\ raw # <<>> /\ text # <<>>) =>
        text[1] \notin WhiteSpace /\ text[Len(text)] \notin WhiteSpace

\* C7: the result never begins with U+FEFF
C7_NoLeadingBOM ==
    (pc = "clean_ret" /\ text # <<>>) => text[1] # BOM

(***************************************************************************)
(* Properties of the per-document driver                                   *)
(***************************************************************************)
\* s is an initial segment of t
IsPrefix(s, t) == Len(s) <= Len(t) /\ SubSeq(t, 1, Len(s)) = s

\* C10: the steps of a document run in the order compact, flatten, normalize,
\* sanitize, and a document that yields a record went through all four
\* (in the CSV creator this holds of the Hebrew counterpart as well)
C10_FixedOrder ==
    source_format = "html" =>
        /\ IsPrefix(steps, Order)
        /\ IsPrefix(src_steps, Order)
        /\ pc = "done" => steps = Order
        /\ (pc = "done" /\ creator = "csv") => src_steps = Order

\* C10 witness: a record with a body was produced, all four steps in order,
\* from markup that compaction changed
C10_Witness ==
    /\ pc = "done"
    /\ steps = Order
    /\ raw # <<>> /\ compact_html(raw) # raw
    /\ text # <<>>

\* s has a codepoint of 0x00-0x1F other than tab, LF and CR
HasControl(s) == \E i \in 1..Len(s) : s[i] \in (0..31) \ Kept3

\* C11: no text field of an emitted record (title, body, the retained markup;
\* in the CSV creator the Hebrew body and markup too) has a codepoint of
\* 0x00-0x1F other than tab, LF and CR
C11_EmittedFieldsClean ==
    pc = "done" =>
        /\ ~HasControl(title)
        /\ ~HasControl(text)
        /\ ~HasControl(html)
        /\ ~HasControl(src_text)
        /\ ~HasControl(src_html)

\* C11 witness: a record was emitted for a document whose compacted markup
\* and whose flattened body both had a control character
C11_Witness ==
    /\ pc = "done"
    /\ HasControl(compact_html(raw))
    /\ HasControl(raw_text)
    /\ html # <<>> /\ text # <<>>

(***************************************************************************)
(* Properties of the text recovered from page-description sources          *)
(***************************************************************************)
\* the Hebrew block U+0590-U+05FF
Hebrew == 1424..1535

AsciiAlpha == (65..90) \cup (97..122)

\* the Hebrew-block codepoints of s, in order
HebrewOf(s) == SelectSeq(s, LAMBDA c : c \in Hebrew)

HasRtl(s) == HebrewOf(s) # <<>>

\* a non-empty token of ASCII letters only
PureAscii(t) == t # <<>> /\ \A i \in 1..Len(t) : t[i] \in AsciiAlpha

Reverse(s) == [i \in 1..Len(s) |-> s[Len(s) + 1 - i]]

\* the first n elements of a sequence
FirstOf(s, n) == SubSeq(s, 1, Min(n, Len(s)))

\* the whitespace-separated tokens of s, in order
RECURSIVE TokensFrom(_, _, _)
TokensFrom(s, i, acc) ==
    LET j == RunEnd(s, i, WhiteSpace)
        k == StopAt(s, j, WhiteSpace)
    IN IF j > Len(s) THEN acc
       ELSE TokensFrom(s, k, Append(acc, SubSeq(s, j, k - 1)))

Tokens(s) == TokensFrom(s, 1, <<>>)

\* the lines of s: the pieces between its LFs, in order
RECURSIVE LinesFrom(_, _, _)
LinesFrom(s, i, acc) ==
    LET j == StopAt(s, i, {LF})
    IN IF j > Len(s) THEN Append(acc, SubSeq(s, i, Len(s)))
       ELSE LinesFrom(s, j + 1, Append(acc, SubSeq(s, i, j - 1)))

Lines(s) == LinesFrom(s, 1, <<>>)

\* some token of t is ASCII letters only
HasAsciiToken(t) == \E k \in 1..Len(Tokens(t)) : PureAscii(Tokens(t)[k])

\* the detection rule: a Hebrew codepoint among the first 200, and among the
\* first 20 tokens one with a Hebrew codepoint and another of ASCII letters
NeedsRepair(s) ==
    /\ HasRtl(FirstOf(s, 200))
    /\ LET T == FirstOf(Tokens(s), 20)
       IN \E a, b \in 1..Len(T) : a # b /\ HasRtl(T[a]) /\ PureAscii(T[b])

\* the Hebrew letters of the line are one right-to-left run: nothing but
\* whitespace between them
OneRtlRun(l) ==
    \A i, j \in 1..Len(l) :
        (i < j /\ l[i] \in Hebrew /\ l[j] \in Hebrew) =>
            \A k \in i..j : l[k] \in Hebrew \cup WhiteSpace

\* the line mixes an ASCII token with one right-to-left run
MixedLine(l) == HasRtl(l) => (HasAsciiToken(l) /\ OneRtlRun(l))

\* the Hebrew letters of the lines of s, those of each line in opposite order
RECURSIVE ReorderedHebrew(_, _, _)
ReorderedHebrew(ls, k, acc) ==
    IF k > Len(ls) THEN acc
    ELSE ReorderedHebrew(ls, k + 1, acc \o Reverse(HebrewOf(ls[k])))

\* C12: in the body of a document recovered from a PDF, (1) when the
\* detection rule holds and every line with Hebrew letters mixes an ASCII
\* token with one visually-reversed right-to-left run, the Hebrew letters of
\* each line come out in the opposite (logical) order; (2) when the text has
\* Hebrew letters and no ASCII token, its Hebrew letters come out in the
\* order they had
C12_BidiRepaired ==
    (pc = "done" /\ source_format = "pdf") =>
        /\ (NeedsRepair(raw) /\ \A k \in 1..Len(Lines(raw)) : MixedLine(Lines(raw)[k]))
              => HebrewOf(text) = ReorderedHebrew(Lines(raw), 1, <<>>)
        /\ (HasRtl(raw) /\ ~HasAsciiToken(raw))
              => HebrewOf(text) = HebrewOf(raw)

\* how often c occurs in s
Count(s, c) == Len(SelectSeq(s, LAMBDA x : x = c))

\* a and b have the same codepoints, each as often
IsPermutation(a, b) ==
    /\ Len(a) = Len(b)
    /\ \A i \in 1..Len(a) : Count(a, a[i]) = Count(b, a[i])

\* a is b with some of its elements taken out
RECURSIVE IsSubsequence(_, _)
IsSubsequence(a, b) ==
    IF a = <<>> THEN TRUE
    ELSE IF b = <<>> THEN FALSE
    ELSE IF a[1] = b[1] THEN IsSubsequence(Tail(a), Tail(b))
    ELSE IsSubsequence(a, Tail(b))

\* s without its codepoints of 0x00-0x1F other than tab, LF and CR, then
\* without the whitespace and byte-order marks it starts with and the
\* whitespace it ends with
Trimmed(s) ==
    RStrip(LStrip(SelectSeq(s, LAMBDA c : c \notin (0..31) \ Kept3),
                  WhiteSpace \cup {BOM}),
           WhiteSpace)

C14_NoFatalError == pc # "aborted"

\* C15: no emitted record has a body that is empty or whitespace only
C15_NoEmptyBody == pc = "done" => Strip(text, WhiteSpace) # <<>>

\* the markup field of the record of a markup document, from the file alone
MarkupAlone ==
    clean_control_chars(creator,
        IF creator = "json" /\ lang = "he" THEN MarkHebrew(compact_html(raw))
        ELSE compact_html(raw))

IsSuffix(a, b) == Len(a) <= Len(b) /\ SubSeq(b, Len(b) - Len(a) + 1, Len(b)) = a

\* the tag that starts at i is never terminated: no '>' after it
Unterminated(s, i) == s[i] = LT /\ \A k \in (i + 1)..Len(s) : s[k] # GT

\* the <script block that starts at i is never closed: no "</script" after it
Unclosed(s, i) ==
    /\ TagStartsWith(s, i, ScriptOpen)
    /\ \A k \in (i + 1)..Len(s) : ~TagStartsWith(s, k, ScriptClose)

\* C17: the input from a never-terminated tag on, and from a never-closed
\* <script on, is the end of the output, codepoint for codepoint
C17_RemainderVerbatim ==
    pc = "compacted" =>
        \A i \in 1..Len(raw) :
            (Unterminated(raw, i) \/ Unclosed(raw, i))
                => IsSuffix(SubSeq(raw, i, Len(raw)), html)

(***************************************************************************)
(* Further properties of the text normalizer                               *)
(***************************************************************************)
\* C18: in the output of the normalizer no space and no tab is directly
\* before or directly after a newline
C18_NoBlankNextToNewline ==
    pc = "normalize_ret" =>
        \A i \in 1..Len(text) :
            text[i] = LF =>
                /\ i > 1 => text[i - 1] \notin {SP, TAB}
                /\ i < Len(text) => text[i + 1] \notin {SP, TAB}

(***************************************************************************)
(* Properties of the markup handed to the flattener                        *)
(***************************************************************************)
\* a closing div tag, in any letter case, starts at i
ClosesDiv(s, i) == TagStartsWith(s, i, DivClose)

\* how many closing div tags s has
DivCloses(s) == Cardinality({i \in 1..Len(s) : ClosesDiv(s, i)})

\* C19: in every creator the markup handed to html2text has the closing div
\* tags of the page, in any letter case, each directly followed by <br>
C19_BreakAfterDiv ==
    pc = "breaks_ret" =>
        /\ DivCloses(text) = DivCloses(raw)
        /\ \A i \in 1..Len(text) :
              ClosesDiv(text, i)
                  => (i + 9 <= Len(text) /\ SubSeq(text, i + 6, i + 9) = Br)

(***************************************************************************)
(* Properties of compact_html's loop                                       *)
(***************************************************************************)
\* C20: the loop has copied exactly one character per character passed, each
\* turn moves the index forward by one, never past the end of the input, and
\* the function returns
C20_ScanTotal ==
    /\ [](pc = "scan" => (scan.i <= Len(raw) /\ Len(scan.out) = scan.i))
    /\ [][(pc = "scan" /\ pc' = "scan") => scan'.i = scan.i + 1]_vars
    /\ <>(pc = "compacted")

\* C20 witness: the function has returned for an input in which the loop
\* took each of its branches, and the index is the length of the input
C20_Witness ==
    /\ pc = "compacted"
    /\ scan.i = Len(raw)
    /\ \E i, j, k \in 1..Len(raw) : raw[i] = LT /\ raw[j] = GT /\ raw[k] = LF
    /\ html = compact_html(raw)

\* the loop taken turn by turn returns what compact_html returns
ScanAgrees == pc = "compacted" => html = compact_html(raw)

(***************************************************************************)
(* Idempotence                                                             *)
(***************************************************************************)
\* C22: compact_html applied to its own result returns it unchanged: the
\* second scan changes no character and the cleanup passes find nothing more
\* to remove
C22_CompactIdempotent ==
    pc = "compacted" =>
        /\ compact_html(html) = html
        /\ Scan(html, 1, FALSE, FALSE, <<>>) = html
        /\ Cleanup(html) = html

\* C22 witness: a result that differs from the text read, with a space left
\* from a newline of the text and a tag whose neighbouring whitespace is gone
C22_Witness ==
    /\ pc = "compacted"
    /\ Contains(raw, <<LF>>)
    /\ Contains(html, <<SP>>)
    /\ Contains(html, <<LT>>)
    /\ Len(html) < Len(raw)

\* C23: clean_control_chars applied to its own result returns it unchanged
C23_CleanIdempotent ==
    pc = "clean_ret" => clean_control_chars(creator, text) = text

(***************************************************************************)
(* The three copies                                                        *)
(***************************************************************************)
\* C24: on the same text, clean_control_chars, the post-processing of
\* extract_content and its insertion of line breaks give the same result in
\* the CSV, the JSON and the Dolma creator
C24_CopiesAgree ==
    pc = "clean_ret" =>
        \A c \in Creators :
            /\ clean_control_chars(c, raw) = text
            /\ NormalizeText(c, raw) = NormalizeText(creator, raw)
            /\ InsertBreaks(c, raw) = InsertBreaks(creator, raw)

(***************************************************************************)
(* Stub pages                                                              *)
(***************************************************************************)
\* the markup in which the creators look for the marker
StubChecked ==
    IF creator = "json" /\ lang = "he" THEN MarkHebrew(compact_html(raw))
    ELSE compact_html(raw)

\* "\n", "\r", "\t" and " "
MarkerGaps == {LF, CR, TAB, SP}

\* s has, in its ordinary text, the words of the marker in a row with runs
\* of newlines, tabs and spaces between them
HasSpacedMarker(s) ==
    LET o == Ordinary(s)
    IN \E i \in 1..Len(s) : \E j \in i..Len(s) :
          /\ \A k \in i..j : o[k]
          /\ SubRuns(SubSeq(s, i, j), 1, MarkerGaps, 1, <<SP>>, <<>>)
                 = StubMarker

\* C21: a record is emitted for no markup file that has '.partial.html' in
\* its path or the marker in its compacted markup, and so for no file that
\* has the words of the marker in its text with newlines, tabs or several
\* spaces between them
C21_NoStubRecord ==
    (pc = "done" /\ source_format = "html") =>
        /\ ~partial
        /\ ~Contains(StubChecked, StubMarker)
        /\ ~HasSpacedMarker(raw)

\* C21 witness: a page that has the words of the marker with other gaps than
\* one space is skipped, after a document that gave a record
C21_Witness ==
    /\ pc = "skipped"
    /\ source_format = "html"
    /\ ~partial
    /\ ~Contains(raw, StubMarker)
    /\ HasSpacedMarker(raw)
    /\ Contains(html, StubMarker)
    /\ articles = <<1>>

(***************************************************************************)
(* main of the Dolma creator, on a directory with one file                 *)
(***************************************************************************)
\* count_words_smart for the languages written with spaces:
\* len([w for w in text.split() if w.strip()])
count_words_smart(s) == Len(Tokens(s))

\* the document process_file builds from its cleaned text and title: the
\* digest stands as the text it is the digest of
Doc ==
    [text |-> text,
     title |-> title,
     word_count |-> count_words_smart(text),
     char_count |-> Len(text),
     sha256 |-> text]

\* create_dataset is through its loops and returns articles:
\* dataset = creator.create_dataset(args.input_dir)
ReturnDataset ==
    /\ pc \in {"done", "skipped"}
    /\ dataset' = [i \in 1..Len(articles) |-> Doc]
    /\ pc' = "writing"
    /\ UNCHANGED <<file, html, soup_title, raw_text, title, text, src, steps,
                   kept, scan, jsonl>>

\* one turn of for doc in dataset: the text and the title are cleaned again,
\* then json.dump(doc, out)
WriteDoc ==
    /\ pc = "writing"
    /\ Len(jsonl) < Len(dataset)
    /\ LET i == Len(jsonl) + 1
           d == [dataset[i] EXCEPT
                    !.text = clean_control_chars(creator, @),
                    !.title = clean_control_chars(creator, @)]
       IN /\ dataset' = [dataset EXCEPT ![i] = d]
          /\ jsonl' = Append(jsonl, d)
    /\ UNCHANGED <<file, pc, html, soup_title, raw_text, title, text, src,
                   steps, kept, scan>>

InitMain == Init /\ creator = "dolma"

NextMain ==
    \/ ReadFails
    \/ CompactDoc
    \/ ExtractTxt
    \/ SkipStub
    \/ Flatten
    \/ FlattenFails
    \/ Normalize
    \/ SkipEmpty
    \/ Sanitize
    \/ ReturnDataset
    \/ WriteDoc

SpecMain == InitMain /\ [][NextMain]_vars

\* C25: every document written has the text over which its sha256, its
\* char_count and its word_count were computed
C25_WrittenTextIsHashedText ==
    \A i \in 1..Len(jsonl) :
        /\ jsonl[i].sha256 = jsonl[i].text
        /\ jsonl[i].char_count = Len(jsonl[i].text)
        /\ jsonl[i].word_count = count_words_smart(jsonl[i].text)

====
